---- MODULE Spec2Model ----
(***************************************************************************)
(* State-machine model of the robotic-arm controller MRoverArm             *)
(* (jetson/ra_kinematics/mrover_arm.cpp): the telemetry handler with its   *)
(* encoder guard, the command handlers, the preview loop and the executor  *)
(* thread execute_spline.  The handlers share the object's fields without  *)
(* a lock, so the executor's loop body is three steps (poll, check, move)  *)
(* that the handlers interleave with.                                      *)
(*                                                                         *)
(* Angles are C++ doubles.  They are modelled as exact rationals           *)
(* <<numerator, denominator>> in lowest terms, so that the executor's      *)
(* division is computed, not rounded.                                      *)
(*                                                                         *)
(* The headers (mrover_arm.hpp, arm_state.hpp, motion_planner.hpp) and the *)
(* bodies of ArmState, MotionPlanner and KinematicsSolver are not part of  *)
(* the sources at hand: the tuning constants, set_joint_angles, the spline *)
(* and the outcomes of IK, is_safe and rrt_connect follow the written      *)
(* specification of those components.  lock_joints_callback and            *)
(* ra_control_callback write fields that no handler modelled here reads    *)
(* and are left out.                                                       *)
(***************************************************************************)
EXTENDS Integers, Sequences, FiniteSets, TLC

VARIABLES
    state,                  \* state.get_joint_angles(): the live ArmModel
    prev_angles,            \* per joint: deque of recent readings, newest first
    faulty_encoders,        \* per joint: marked faulty by the temporal check
    encoder_error,
    encoder_error_message,
    enable_execute,
    sim_mode,
    ik_enabled,
    previewing,
    spline,                 \* motion_planner's current spline (or NoSpline)
    exec_pc,                \* execute_spline: position of the executor thread
    spline_t,               \* execute_spline: local spline_t
    init_angles,            \* execute_spline: local init_angles
    cmd_pc,                 \* command handler thread: "idle" or inside preview()
    hypo_state,             \* the hypo_state copy preview() animates
    out,                    \* history: what the last step published / called
    env,                    \* environment: the joint whose encoder misbehaves,
                            \* and the messages sent so far (saturating counts)
    hist                    \* history: facts about the running execution

vars == <<state, prev_angles, faulty_encoders, encoder_error, encoder_error_message,
          enable_execute, sim_mode, ik_enabled, previewing, spline, exec_pc,
          spline_t, init_angles, cmd_pc, hypo_state, out, env, hist>>

---------------------------------------------------------------------------
(* Exact rational arithmetic standing for double arithmetic.               *)

Abs(x) == IF x < 0 THEN -x ELSE x

RECURSIVE GCD(_, _)
GCD(a, b) == IF b = 0 THEN a ELSE GCD(b, a % b)

Rat(n, d) ==
    IF d = 1 THEN <<n, 1>>
    ELSE LET s == IF d < 0 THEN -1 ELSE 1
             g == GCD(Abs(n), Abs(d))
         IN  <<(s * n) \div g, (s * d) \div g>>

RInt(n) == <<n, 1>>

\* Sums and products cancel common factors before multiplying, which keeps the
\* intermediate integers as small as the result allows.
RAdd(a, b) ==
    IF a[2] = b[2] THEN Rat(a[1] + b[1], a[2])
    ELSE LET g == GCD(a[2], b[2])
         IN  Rat(a[1] * (b[2] \div g) + b[1] * (a[2] \div g), (a[2] \div g) * b[2])
RNeg(a) == <<-a[1], a[2]>>
RSub(a, b) == RAdd(a, RNeg(b))
RMul(a, b) ==
    IF a[2] = 1 /\ b[2] = 1 THEN <<a[1] * b[1], 1>>
    ELSE LET g1 == GCD(Abs(a[1]), b[2])
             g2 == GCD(Abs(b[1]), a[2])
         IN  Rat((a[1] \div g1) * (b[1] \div g2), (a[2] \div g2) * (b[2] \div g1))
RInv(a) == IF a[1] < 0 THEN <<-a[2], -a[1]>> ELSE <<a[2], a[1]>>
RDiv(a, b) == RMul(a, RInv(b))
RLt(a, b) == IF a[2] = b[2] THEN a[1] < b[1] ELSE RSub(a, b)[1] < 0
RAbs(a) == <<Abs(a[1]), a[2]>>

---------------------------------------------------------------------------
(* Sizes and tuning constants.                                             *)

\* Joints modelled (the arm has six: A..F).  The last joint plays joint F,
\* the one the executor leaves out of its pacing.
NumJoints == 2
Joints == 0 .. (NumJoints - 1)
PacedJoints == 0 .. (NumJoints - 2)

\* Declared in mrover_arm.hpp.  The window length is stated by the comments of
\* arm_position_callback ("less than 5 previous angles", "up to 5 latest").
MAX_NUM_PREV_ANGLES == 5
\* Declared in mrover_arm.hpp, which gives the values; what the handlers rely
\* on is 0 <= MAX_FISHY_VALS < MAX_NUM_PREV_ANGLES and
\* DUD_ENCODER_EPSILON < ACCEPTABLE_BEYOND_LIMIT < ENCODER_ERROR_THRESHOLD.
MAX_FISHY_VALS == 1
ENCODER_ERROR_THRESHOLD == RInt(2)
ACCEPTABLE_BEYOND_LIMIT == RInt(1)
DUD_ENCODER_EPSILON == Rat(1, 4)

\* The constructor's DUD_ENCODER_VALUES.push_back(0.0).
DUD_ENCODER_VALUES == <<RInt(0)>>

\* Geometry configuration read by ArmState: the same for every joint here.
get_joint_limits(i) == <<RInt(-2), RInt(12)>>

\* The encoder offset and multiplier of the configuration, which the
\* environment fixes at construction: the same for every joint here.
Offsets == {0, 1}
Multipliers == {-1, 1, 2}
get_joint_encoder_offset(i) == RInt(env.offset)
get_joint_encoder_multiplier(i) == RInt(env.multiplier)
\* The configuration the guard and the controller are studied with.
DefaultConfig == env.offset = 1 /\ env.multiplier = -1

\* What a joint at logical angle a reports on the wire in hardware mode: the
\* encoder's own scale, of which the handler's (raw - offset) * multiplier
\* is the reading back.
RawOf(i, a) == RAdd(RDiv(a, get_joint_encoder_multiplier(i)), get_joint_encoder_offset(i))

---------------------------------------------------------------------------
(* The encoder guard: the checks of arm_position_callback.                 *)

NoMessage == [text |-> "", joint |-> -1, angle |-> RInt(0), joints |-> <<>>]
DebugText(t) == [text |-> t, joint |-> -1, angle |-> RInt(0), joints |-> <<>>]

\* Lines 47-52: raw encoder units to logical angles (hardware mode only).
adjust_encoders(angles) ==
    [i \in Joints |->
        IF sim_mode THEN angles[i]
        ELSE RMul(RSub(angles[i], get_joint_encoder_offset(i)),
                  get_joint_encoder_multiplier(i))]

\* check_dud_encoder, one joint: the inner loop over DUD_ENCODER_VALUES.
RECURSIVE dud_scan(_, _, _)
dud_scan(a, i, j) ==
    IF j > Len(DUD_ENCODER_VALUES) THEN a
    ELSE IF RLt(RAbs(RSub(a, DUD_ENCODER_VALUES[j])), DUD_ENCODER_EPSILON)
         THEN dud_scan(state[i], i, j + 1)
         ELSE dud_scan(a, i, j + 1)

\* The dud check left out.
check_dud_encoder_skipped(angles) == angles

check_dud_encoder(angles) == [i \in Joints |-> dud_scan(angles[i], i, 1)]

\* check_joint_limits, one joint: "clamp", "error" or "ok".
limit_case(a, i) ==
    LET limits == get_joint_limits(i)
    IN  IF RLt(a, limits[1]) /\ RLt(RAbs(RSub(a, limits[1])), ACCEPTABLE_BEYOND_LIMIT)
            THEN "low"
        ELSE IF RLt(limits[2], a) /\ RLt(RAbs(RSub(a, limits[2])), ACCEPTABLE_BEYOND_LIMIT)
            THEN "high"
        ELSE IF RLt(a, limits[1]) \/ RLt(limits[2], a)
            THEN "error"
        ELSE "ok"

\* check_joint_limits: the loop over the joints.  Each joint's angle is
\* clamped or kept on its own; encoder_error is set by any joint beyond the
\* tolerance and encoder_error_message is the one of the last such joint.
check_joint_limits(angles, error, message) ==
    LET cs == [i \in Joints |-> limit_case(angles[i], i)]
        bad == {i \in Joints : cs[i] = "error"}
        last == CHOOSE i \in bad : \A j \in bad : j <= i
    IN  [angles |-> [i \in Joints |->
                        CASE cs[i] = "low"  -> get_joint_limits(i)[1]
                          [] cs[i] = "high" -> get_joint_limits(i)[2]
                          [] OTHER -> angles[i]],
         error |-> error \/ bad # {},
         message |-> IF bad = {} THEN message
                     ELSE [text |-> "Encoder Error: beyond joint limits",
                           joint |-> last, angle |-> angles[last], joints |-> <<>>]]

\* The comparison of both branches: diff > ENCODER_ERROR_THRESHOLD * (i + 1),
\* with k = i + 1 the 1-based place in the window.
exceeds(a, w, k) ==
    RLt(RMul(ENCODER_ERROR_THRESHOLD, RInt(k)), RAbs(RSub(a, w[k])))

\* Lines 67-80, window not yet full: the scan of one joint's window, leaving
\* at the first violation.  "keep" when the window is empty.
RECURSIVE scan_short(_, _, _)
scan_short(a, w, k) ==
    IF k > Len(w) THEN "keep"
    ELSE IF exceeds(a, w, k) THEN "faulty"
    ELSE IF k = Len(w) THEN "clear"
    ELSE scan_short(a, w, k + 1)

\* Lines 87-96, window full: num_fishy_vals of one joint.
RECURSIVE num_fishy_vals(_, _, _)
num_fishy_vals(a, w, k) ==
    IF k > MAX_NUM_PREV_ANGLES THEN 0
    ELSE (IF exceeds(a, w, k) THEN 1 ELSE 0) + num_fishy_vals(a, w, k + 1)

\* The short-window scan without its break: the oldest entry decides.
jump_case_last_decides(a, w, full) ==
    IF full THEN (IF num_fishy_vals(a, w, 1) > MAX_FISHY_VALS THEN "faulty" ELSE "clear")
    ELSE IF Len(w) = 0 THEN "keep"
    ELSE IF exceeds(a, w, Len(w)) THEN "faulty"
    ELSE "clear"

\* The full-window rule with no tolerance for a single old reading.
jump_case_no_tolerance(a, w, full) ==
    IF ~full THEN scan_short(a, w, 1)
    ELSE IF num_fishy_vals(a, w, 1) > 0 THEN "faulty"
    ELSE "clear"

\* The full-window rule with >= in place of >.
jump_case_inclusive(a, w, full) ==
    IF ~full THEN scan_short(a, w, 1)
    ELSE IF num_fishy_vals(a, w, 1) >= MAX_FISHY_VALS THEN "faulty"
    ELSE "clear"

\* Lines 60-108, one joint: "faulty", "clear" or "keep".
jump_case(a, w, full) ==
    IF ~full THEN scan_short(a, w, 1)
    ELSE IF num_fishy_vals(a, w, 1) > MAX_FISHY_VALS THEN "faulty"
    ELSE "clear"

\* The joints a message marks, in the order the loop appends them to the message.
RECURSIVE marked_joints(_, _)
marked_joints(cases, i) ==
    IF i >= NumJoints THEN <<>>
    ELSE (IF cases[i] = "faulty" THEN <<i>> ELSE <<>>) \o marked_joints(cases, i + 1)

\* Lines 112-116: pop_back when full, then push_front.
push_window(w, a) ==
    <<a>> \o (IF Len(w) >= MAX_NUM_PREV_ANGLES THEN SubSeq(w, 1, Len(w) - 1) ELSE w)

\* The angles given to the model with no reading substituted.
substitute_faulty_none(angles, faulty, model) == angles

\* Lines 117-118: a joint marked faulty takes the model's current angle.
substitute_faulty(angles, faulty, model) ==
    [i \in Joints |-> IF faulty[i] THEN model[i] ELSE angles[i]]

\* ArmState::set_joint_angles: clamps a breach within the tolerance, stores any
\* other value as given.
set_joint_angles(angles) ==
    [i \in Joints |->
        CASE limit_case(angles[i], i) = "low"  -> get_joint_limits(i)[1]
          [] limit_case(angles[i], i) = "high" -> get_joint_limits(i)[2]
          [] OTHER -> angles[i]]

Transforms(of, angles) ==
    [chan |-> "/fk_transform", isError |-> FALSE, message |-> DebugText(of), angles |-> angles]
Debug(isError, message) ==
    [chan |-> "/debug_message", isError |-> isError, message |-> message,
     angles |-> [i \in Joints |-> RInt(0)]]
Config(chan, angles) ==
    [chan |-> chan, isError |-> FALSE, message |-> NoMessage, angles |-> angles]

---------------------------------------------------------------------------
(* Environment and history.                                                *)

\* Angles the misbehaving encoder may report (logical units): the dud value,
\* a resting value, a small jump, the upper limit, a value just past the limit
\* (inside the tolerance) and one past it by twice the tolerance.
Readings == {RInt(0), RInt(1), RInt(4), RInt(12), Rat(25, 2), RInt(14)}

\* Bounds of the environment: telemetry messages and target messages counted
\* (the counts saturate), and the numbers of random IK restarts tried out.
MaxMsgs == 1
MaxTargets == 2
MaxExecs == 2
Min(a, b) == IF a < b THEN a ELSE b

\* A reading that the dud check replaces.
IsDud(a) ==
    \E j \in 1 .. Len(DUD_ENCODER_VALUES) :
        RLt(RAbs(RSub(a, DUD_ENCODER_VALUES[j])), DUD_ENCODER_EPSILON)

\* What one step published and which collaborators it called; for a telemetry
\* message, whether the windows were full, which joints read a dud value, the
\* angles as the message brought them and as check_joint_limits received
\* them, and the joints that were marked faulty when the message arrived.
Step(op, pub, calls) ==
    [op |-> op, pub |-> pub, calls |-> calls, full |-> FALSE, dud |-> {},
     read |-> [i \in Joints |-> RInt(0)], msg |-> [i \in Joints |-> RInt(0)],
     faulty_before |-> {}]

\* History of the running execution: the last setpoint the executor issued,
\* whether the run is clean (a planned spline confirmed in simulation mode with
\* the executor at rest, and since then no encoder error, no cancel and no
\* telemetry that moved the model), and whether an encoder error was raised
\* that the executor has not yet acted on.
\* awaiting: a plan's preview has completed and nothing has ended or replaced it.
NoSetpoint == <<>>
NoHist == [setpoint |-> NoSetpoint, clean |-> FALSE, abort_due |-> FALSE, awaiting |-> FALSE]
Cancelled(h) == [h EXCEPT !.clean = FALSE, !.abort_due = FALSE]

---------------------------------------------------------------------------
(* MRoverArm::arm_position_callback (telemetry handler).                   *)

EncoderPrefix ==
    [text |-> "Encoder Error in encoder(s) (joint A = 0, F = 5): ",
     joint |-> -1, angle |-> RInt(0), joints |-> <<>>]

arm_position_callback(msg) ==
    \E a0 \in {adjust_encoders(msg)} :
    \E a1 \in {check_dud_encoder(a0)} :
    \E lim \in {check_joint_limits(a1, FALSE, EncoderPrefix)} :
    \E a2 \in {lim.angles} :
    \E full \in {~(Len(prev_angles[0]) < MAX_NUM_PREV_ANGLES)} :
    \E cases \in {[i \in Joints |-> jump_case(a2[i], prev_angles[i], full)]} :
    LET marked == marked_joints(cases, 0)
        faulty2 == [i \in Joints |->
                       CASE cases[i] = "faulty" -> TRUE
                         [] cases[i] = "clear" -> FALSE
                         [] OTHER -> faulty_encoders[i]]
        a3 == substitute_faulty(a2, faulty2, state)
        error == lim.error \/ marked # <<>>
    IN  /\ prev_angles' = [i \in Joints |-> push_window(prev_angles[i], a2[i])]
        /\ faulty_encoders' = faulty2
        /\ encoder_error' = error
        /\ encoder_error_message' = [lim.message EXCEPT !.joints = @ \o marked]
        /\ state' = IF previewing THEN state ELSE set_joint_angles(a3)
        /\ out' = [Step("arm_position",
                        IF previewing THEN <<>> ELSE <<Transforms("state", state')>>,
                        <<>>)
                    EXCEPT !.full = full,
                           !.dud = {i \in Joints : IsDud(a0[i])},
                           !.read = a1,
                           !.msg = msg,
                           !.faulty_before = {i \in Joints : faulty_encoders[i]}]
        /\ hist' = [hist EXCEPT !.clean = @ /\ ~error /\ state' = state,
                                !.abort_due = @ \/ (error /\ enable_execute)]
        /\ env' = [env EXCEPT !.msgs = Min(@ + 1, MaxMsgs)]
        /\ UNCHANGED <<enable_execute, sim_mode, ik_enabled, previewing, spline,
                       exec_pc, spline_t, init_angles, cmd_pc, hypo_state>>

\* The messages that arrive on /arm_position: every healthy joint reports the
\* model's angle (the simulator's echo, or an encoder that tracks the arm), the
\* misbehaving joint reports that or one of R; raw units in hardware mode.
ArmPositionMsgs(R) ==
    {[i \in Joints |->
         LET a == IF i = env.flaky THEN r ELSE state[i]
         IN  IF sim_mode THEN a ELSE RawOf(i, a)] : r \in R \cup {state[env.flaky]}}

ArmPosition == \E msg \in ArmPositionMsgs(Readings) : arm_position_callback(msg)

---------------------------------------------------------------------------
(* Collaborators: the motion planner's spline and the joint speeds.        *)

Zero == [i \in Joints |-> RInt(0)]

get_joint_max_speed(i) == RInt(100)
SPLINE_WAIT_TIME == 20
D_SPLINE_T == Rat(1, 20)

\* preview(): double num_steps = 50.0
num_steps == 50
\* target_orientation_callback: for (int i = 0; i < 25; ++i)
MaxRandomIK == 25
\* What the solver may answer: the set of IK calls of one target that succeed,
\* call 0 being the attempt from the current configuration and call k the k-th
\* random restart.
IKOutcomes == {{}, {0}, {1}, {MaxRandomIK}, {MaxRandomIK + 1}}

\* Precision of the model: the executor is followed while the denominators of
\* spline_t and of the setpoint stay within it.
MaxDenominator == 200

NoSpline == [planned |-> FALSE, from |-> Zero, to |-> Zero]

\* The goals the operator asks for.
TargetA == [i \in Joints |-> IF i \in PacedJoints THEN RInt(4) ELSE RInt(6)]
Targets == {TargetA}

\* MotionPlanner::get_spline_pos over a planned path: the curve through the
\* start and the goal, s(0) = start and s(1) = goal.
get_spline_pos(sp, t) ==
    [i \in Joints |-> RAdd(sp.from[i], RMul(RSub(sp.to[i], sp.from[i]), t))]

\* get_spline_pos before any path was planned reads a spline that was never
\* set: any configuration may come back.
SplineValues(sp, t) ==
    IF sp.planned THEN {get_spline_pos(sp, t)} ELSE {Zero}

\* KinematicsSolver::is_safe(state): the limit check, and then the collision
\* check, whose geometry is not modelled (either outcome).
limit_check(angles) ==
    \A i \in Joints :
        /\ ~RLt(angles[i], get_joint_limits(i)[1])
        /\ ~RLt(get_joint_limits(i)[2], angles[i])

is_safe(angles) == IF limit_check(angles) THEN BOOLEAN ELSE {FALSE}

---------------------------------------------------------------------------
(* Command handlers.  They run on the command thread: one at a time, and   *)
(* none while preview() is still running.                                  *)

\* plan_path: rrt_connect, then preview or the popup.  Of preview(), lines
\* 361-363: the flags are set before the first frame.
plan_path(op, hypo, goal, path_found, calls) ==
    IF path_found
    THEN /\ spline' = [planned |-> TRUE, from |-> hypo, to |-> goal]
         /\ ik_enabled' = TRUE
         /\ previewing' = TRUE
         /\ cmd_pc' = "preview"
         /\ hypo_state' = hypo
         /\ out' = Step(op, <<>>, calls \o <<"rrt_connect", "preview">>)
    ELSE /\ out' = Step(op, <<Debug(FALSE, DebugText("Unable to plan path!"))>>,
                        calls \o <<"rrt_connect">>)
         /\ UNCHANGED <<spline, ik_enabled, previewing, cmd_pc, hypo_state>>

\* target_angles_callback without line 403: the execution is left enabled.
target_angles_no_cancel(msg, path_found) ==
    /\ UNCHANGED enable_execute
    /\ plan_path("target_angles", state, msg, path_found, <<>>)
    /\ hist' = [hist EXCEPT !.awaiting = FALSE]
    /\ env' = [env EXCEPT !.targets = Min(@ + 1, MaxTargets)]
    /\ UNCHANGED <<state, prev_angles, faulty_encoders, encoder_error,
                   encoder_error_message, sim_mode, exec_pc, spline_t, init_angles>>

target_angles_callback(msg, path_found) ==
    /\ enable_execute' = FALSE
    /\ plan_path("target_angles", state, msg, path_found, <<>>)
    /\ hist' = [Cancelled(hist) EXCEPT !.awaiting = FALSE]
    /\ env' = [env EXCEPT !.targets = Min(@ + 1, MaxTargets)]
    /\ UNCHANGED <<state, prev_angles, faulty_encoders, encoder_error,
                   encoder_error_message, sim_mode, exec_pc, spline_t, init_angles>>

\* preview(), lines 365-392: the frames, the popup, previewing = false.
\* t accumulates 1.0 / num_steps in double arithmetic: after num_steps additions
\* it is 1.0000000000000004, so the loop body runs for t = 0, 1/50 .. 49/50 and
\* not for t = 1.
preview_frames == [k \in 1 .. num_steps |-> Rat(k - 1, num_steps)]

preview ==
    /\ cmd_pc = "preview"
    /\ hypo_state' = set_joint_angles(get_spline_pos(spline, preview_frames[num_steps]))
    /\ out' = Step("preview",
                   [k \in 1 .. num_steps |->
                       Transforms("hypo",
                           set_joint_angles(get_spline_pos(spline, preview_frames[k])))]
                   \o <<Debug(FALSE, DebugText("Preview Done"))>>,
                   <<>>)
    /\ previewing' = FALSE
    /\ cmd_pc' = "idle"
    /\ hist' = [hist EXCEPT !.awaiting = TRUE]
    /\ UNCHANGED <<state, prev_angles, faulty_encoders, encoder_error,
                   encoder_error_message, enable_execute, sim_mode, ik_enabled,
                   spline, exec_pc, spline_t, init_angles, env>>

\* The random restarts made without the break at a success.
ik_restarts_unbroken(i, oks) == MaxRandomIK

\* Lines 186-193: the number of random restarts the loop makes from iteration
\* i on, where ik_solution.second is the outcome of call i.
RECURSIVE ik_restarts(_, _)
ik_restarts(i, oks) ==
    IF i < MaxRandomIK /\ i \notin oks THEN ik_restarts(i + 1, oks) ELSE i

\* Lines 183-193: the IK calls made, each with its outcome.
ik_calls(oks) ==
    [k \in 1 .. (ik_restarts(0, oks) + 1) |->
        IF (k - 1) \in oks THEN "IK:solved" ELSE "IK:failed"]

\* Line 196: ik_solution.second after the loop, the outcome of the last call.
ik_solved(oks) == ik_restarts(0, oks) \in oks

\* The safety check made after enable_execute = false instead of before it.
target_orientation_late_check(safe, oks, solution, path_found) ==
    /\ enable_execute' = FALSE
    /\ hist' = [Cancelled(hist) EXCEPT !.awaiting = FALSE]
    /\ IF ~safe
       THEN /\ out' = Step("target_orientation:unsafe",
                           <<Debug(FALSE, DebugText("Unsafe Starting Position"))>>,
                           <<"is_safe">>)
            /\ UNCHANGED <<ik_enabled, previewing, spline, cmd_pc, hypo_state>>
       ELSE LET calls == <<"is_safe">> \o ik_calls(oks)
            IN  IF ik_solved(oks)
                THEN plan_path("target_orientation", solution, solution,
                               path_found, calls)
                ELSE /\ out' = Step("target_orientation:no_ik",
                                    <<Debug(FALSE, DebugText("No IK solution"))>>,
                                    calls)
                     /\ UNCHANGED <<spline, ik_enabled, previewing, cmd_pc,
                                    hypo_state>>
    /\ env' = [env EXCEPT !.targets = Min(@ + 1, MaxTargets)]
    /\ UNCHANGED <<state, prev_angles, faulty_encoders, encoder_error,
                   encoder_error_message, sim_mode, exec_pc, spline_t, init_angles>>

\* target_orientation_callback.  safe is the outcome of is_safe(state), oks the
\* IK calls that succeed and solution what a successful call returns.
target_orientation_callback(safe, oks, solution, path_found) ==
    /\ IF ~safe
       THEN /\ out' = Step("target_orientation:unsafe",
                           <<Debug(FALSE, DebugText("Unsafe Starting Position"))>>,
                           <<"is_safe">>)
            /\ UNCHANGED <<enable_execute, ik_enabled, previewing, spline, cmd_pc,
                           hypo_state, hist>>
       ELSE /\ enable_execute' = FALSE
            /\ hist' = [Cancelled(hist) EXCEPT !.awaiting = FALSE]
            /\ LET calls == <<"is_safe">> \o ik_calls(oks)
               IN  IF ik_solved(oks)
                   THEN plan_path("target_orientation", solution, solution,
                                  path_found, calls)
                   ELSE /\ out' = Step("target_orientation:no_ik",
                                       <<Debug(FALSE, DebugText("No IK solution"))>>,
                                       calls)
                        /\ UNCHANGED <<spline, ik_enabled, previewing, cmd_pc,
                                       hypo_state>>
    /\ env' = [env EXCEPT !.targets = Min(@ + 1, MaxTargets)]
    /\ UNCHANGED <<state, prev_angles, faulty_encoders, encoder_error,
                   encoder_error_message, sim_mode, exec_pc, spline_t, init_angles>>

motion_execute_callback(msg_preview) ==
    /\ IF msg_preview
       THEN UNCHANGED <<enable_execute, hist, env>>
       ELSE /\ enable_execute' = TRUE
            /\ env' = [env EXCEPT !.execs = Min(@ + 1, MaxExecs)]
            /\ hist' = IF enable_execute THEN hist
                       ELSE [setpoint |-> NoSetpoint,
                             clean |-> /\ spline.planned /\ sim_mode
                                       /\ exec_pc = "top" /\ spline_t = RInt(0),
                             abort_due |-> FALSE,
                             awaiting |-> FALSE]
    /\ out' = Step("motion_execute", <<>>, <<>>)
    /\ UNCHANGED <<state, prev_angles, faulty_encoders, encoder_error,
                   encoder_error_message, sim_mode, ik_enabled, previewing, spline,
                   exec_pc, spline_t, init_angles, cmd_pc, hypo_state>>

ik_enabled_callback(enabled) ==
    /\ ik_enabled' = enabled
    /\ IF ~enabled
       THEN /\ enable_execute' = FALSE
            /\ out' = Step("ik_enabled", <<Transforms("state", state)>>, <<>>)
            /\ hist' = [Cancelled(hist) EXCEPT !.awaiting = FALSE]
       ELSE /\ out' = Step("ik_enabled", <<>>, <<>>)
            /\ UNCHANGED <<enable_execute, hist>>
    /\ UNCHANGED <<state, prev_angles, faulty_encoders, encoder_error,
                   encoder_error_message, sim_mode, previewing, spline, exec_pc,
                   spline_t, init_angles, cmd_pc, hypo_state, env>>

simulation_mode_callback(msg_sim_mode) ==
    /\ sim_mode' = msg_sim_mode
    /\ out' = Step("simulation_mode", <<>>, <<>>)
    /\ hist' = IF msg_sim_mode = sim_mode THEN hist ELSE [hist EXCEPT !.clean = FALSE]
    /\ UNCHANGED <<state, prev_angles, faulty_encoders, encoder_error,
                   encoder_error_message, enable_execute, ik_enabled, previewing,
                   spline, exec_pc, spline_t, init_angles, cmd_pc, hypo_state, env>>

TargetAngles ==
    /\ cmd_pc = "idle"
    /\ \E msg \in Targets, path_found \in BOOLEAN : target_angles_callback(msg, path_found)

TargetOrientation ==
    /\ cmd_pc = "idle"
    /\ \E safe \in is_safe(state), oks \in IKOutcomes,
          solution \in Targets, path_found \in BOOLEAN :
          target_orientation_callback(safe, oks, solution, path_found)

MotionExecute ==
    /\ cmd_pc = "idle"
    /\ \E msg_preview \in BOOLEAN : motion_execute_callback(msg_preview)

IkEnabled ==
    /\ cmd_pc = "idle"
    /\ \E enabled \in BOOLEAN : ik_enabled_callback(enabled)

SimulationMode ==
    /\ cmd_pc = "idle"
    /\ \E msg_sim_mode \in BOOLEAN : simulation_mode_callback(msg_sim_mode)

---------------------------------------------------------------------------
(* MRoverArm::execute_spline (executor thread).                            *)

\* Lines 241-242 and 333-337: the poll of enable_execute.
execute_spline_poll ==
    /\ exec_pc = "top"
    /\ IF enable_execute
       THEN exec_pc' = "check" /\ UNCHANGED spline_t
       ELSE exec_pc' = "top" /\ spline_t' = RInt(0)
    /\ out' = Step("execute_spline:poll", <<>>, <<>>)
    /\ UNCHANGED <<state, prev_angles, faulty_encoders, encoder_error,
                   encoder_error_message, enable_execute, sim_mode, ik_enabled,
                   previewing, spline, init_angles, cmd_pc, hypo_state, env, hist>>

\* Lines 244-265: the abort on encoder_error, or else the read of the arm's
\* current angles.
execute_spline_check ==
    /\ exec_pc = "check"
    /\ IF encoder_error
       THEN /\ enable_execute' = FALSE
            /\ spline_t' = RInt(0)
            /\ ik_enabled' = FALSE
            /\ out' = Step("execute_spline:abort",
                           <<Debug(TRUE, encoder_error_message)>> \o
                           (IF sim_mode
                            THEN [k \in 1 .. MAX_NUM_PREV_ANGLES |->
                                     Config("/arm_position", state)]
                            ELSE <<>>),
                           <<>>)
            /\ exec_pc' = "top"
            /\ hist' = NoHist
            /\ UNCHANGED init_angles
       ELSE /\ init_angles' = state
            /\ exec_pc' = "move"
            /\ out' = Step("execute_spline:read", <<>>, <<>>)
            /\ UNCHANGED <<enable_execute, spline_t, ik_enabled, hist>>
    /\ UNCHANGED <<state, prev_angles, faulty_encoders, encoder_error,
                   encoder_error_message, sim_mode, previewing, spline, cmd_pc,
                   hypo_state, env>>

\* Lines 269-279: max_time in ms over joints a through e.
joint_time(final_angles, i) ==
    RDiv(RAbs(RSub(final_angles[i], init_angles[i])),
         RDiv(RDiv(RMul(get_joint_max_speed(i), RInt(3)), RInt(4)), RInt(1000)))

max_time(final_angles) ==
    LET times == {RInt(-1)} \cup {joint_time(final_angles, i) : i \in PacedJoints}
    IN  CHOOSE m \in times : \A x \in times : ~RLt(m, x)

\* The setpoint as the spline returned it, with no clamp.
clamp_to_limits_none(target_angles) == target_angles

\* Lines 298-305: the setpoint clamped to the joint limits.
clamp_to_limits(target_angles) ==
    [i \in Joints |->
        IF RLt(target_angles[i], get_joint_limits(i)[1]) THEN get_joint_limits(i)[1]
        ELSE IF RLt(get_joint_limits(i)[2], target_angles[i]) THEN get_joint_limits(i)[2]
        ELSE target_angles[i]]

\* Lines 312-315: the setpoint in the encoders' units.
to_encoder_units(target_angles) ==
    [i \in Joints |->
        RAdd(RMul(target_angles[i], get_joint_encoder_multiplier(i)),
             get_joint_encoder_offset(i))]

\* Lines 282-283: spline_t advanced by D_SPLINE_T / (max_time / SPLINE_WAIT_TIME);
\* a max_time of 0 makes the increment infinite, which any value above 1 stands for.
next_spline_t(mt) ==
    IF mt = RInt(0) THEN RInt(2)
    ELSE RAdd(spline_t, RDiv(D_SPLINE_T, RDiv(mt, RInt(SPLINE_WAIT_TIME))))

\* Lines 267-326: one tick.
execute_spline_move ==
    /\ exec_pc = "move"
    /\ \E final_angles \in SplineValues(spline, RAdd(spline_t, D_SPLINE_T)) :
       \E t2 \in {next_spline_t(max_time(final_angles))} :
          /\ t2[2] <= MaxDenominator
          /\ IF RLt(RInt(1), t2)
             THEN /\ enable_execute' = FALSE
                  /\ spline_t' = RInt(0)
                  /\ ik_enabled' = FALSE
                  /\ out' = Step("execute_spline:finished", <<>>, <<>>)
                  /\ hist' = NoHist
                  /\ UNCHANGED state
             ELSE \E raw_target \in SplineValues(spline, t2) :
                  \E target_angles \in {clamp_to_limits(raw_target)} :
                      /\ \A i \in Joints : target_angles[i][2] <= MaxDenominator
                      /\ spline_t' = t2
                      /\ IF ~sim_mode
                         THEN /\ out' = Step("execute_spline:setpoint",
                                             <<Config("/ik_ra_control",
                                                      to_encoder_units(target_angles))>>,
                                             <<>>)
                              /\ UNCHANGED state
                         ELSE /\ state' = set_joint_angles(target_angles)
                              /\ out' = Step("execute_spline:setpoint", <<>>, <<>>)
                      /\ hist' = [hist EXCEPT !.setpoint = <<target_angles>>]
                      /\ UNCHANGED <<enable_execute, ik_enabled>>
    /\ exec_pc' = "top"
    /\ init_angles' = Zero
    /\ UNCHANGED <<prev_angles, faulty_encoders, encoder_error, encoder_error_message,
                   sim_mode, previewing, spline, cmd_pc, hypo_state, env>>

---------------------------------------------------------------------------

Init ==
    /\ state = Zero
    /\ prev_angles = [i \in Joints |-> <<>>]
    /\ faulty_encoders = [i \in Joints |-> FALSE]
    /\ encoder_error \in BOOLEAN      \* not set by the constructor
    /\ encoder_error_message = NoMessage
    /\ enable_execute = FALSE
    /\ sim_mode = TRUE
    /\ ik_enabled = FALSE
    /\ previewing = FALSE
    /\ spline = NoSpline
    /\ exec_pc = "top"
    /\ spline_t = RInt(0)
    /\ init_angles = Zero
    /\ cmd_pc = "idle"
    /\ hypo_state = Zero
    /\ out = Step("init", <<>>, <<>>)
    /\ env \in [flaky : Joints, msgs : {0}, targets : {0}, execs : {0},
                offset : Offsets, multiplier : Multipliers]
    /\ hist = NoHist

Next ==
    \/ ArmPosition
    \/ TargetAngles
    \/ TargetOrientation
    \/ preview
    \/ MotionExecute
    \/ IkEnabled
    \/ SimulationMode
    \/ execute_spline_poll
    \/ execute_spline_check
    \/ execute_spline_move

Spec == Init /\ [][Next]_vars

\* The controller in simulation mode under a bounded environment: at most
\* MaxMsgs telemetry messages, drawn from a small alphabet, and MaxTargets targets.
CtlReadings == {RInt(1), RInt(14)}
ArmPositionCtl ==
    /\ env.msgs < MaxMsgs
    /\ \E msg \in ArmPositionMsgs(CtlReadings) : arm_position_callback(msg)
TargetAnglesCtl == env.targets < MaxTargets /\ TargetAngles
TargetOrientationCtl == env.targets < MaxTargets /\ TargetOrientation
MotionExecuteCtl == env.execs < MaxExecs /\ MotionExecute
\* The mode is chosen at bring-up, before any other message.
SimulationModeAtStart ==
    /\ env.msgs = 0 /\ env.targets = 0 /\ env.execs = 0
    /\ SimulationMode
InitCtl == Init /\ DefaultConfig /\ env.flaky = 0

NextCtl ==
    \/ ArmPositionCtl
    \/ TargetAnglesCtl
    \/ TargetOrientationCtl
    \/ preview
    \/ MotionExecuteCtl
    \/ IkEnabled
    \/ execute_spline_poll
    \/ execute_spline_check
    \/ execute_spline_move

SpecCtl == InitCtl /\ [][NextCtl]_vars

\* The guard's conversion and checks of one message on their own: under every
\* configuration, every joint may report any reading of Readings, in the mode
\* chosen at bring-up.
ArmPositionAll ==
    /\ env.msgs < MaxMsgs
    /\ \E r \in [Joints -> Readings] :
          arm_position_callback([i \in Joints |->
                                    IF sim_mode THEN r[i] ELSE RawOf(i, r[i])])

NextLimits == ArmPositionAll \/ SimulationModeAtStart

SpecLimits == Init /\ [][NextLimits]_vars

\* The encoder guard alone: telemetry with every reading of Readings, in the
\* mode chosen at bring-up.
NextGuard == ArmPosition \/ SimulationModeAtStart

InitGuard == Init /\ DefaultConfig

SpecGuard == InitGuard /\ [][NextGuard]_vars

---------------------------------------------------------------------------
(* Properties of the encoder guard.                                        *)

\* The step just taken handled a telemetry message.
Telemetry == out'.op = "arm_position"
\* The windows the message is compared with were full.
FullWindow == Len(prev_angles[0]) = MAX_NUM_PREV_ANGLES
\* The angle of joint j after the dud and limit checks of the message just
\* handled: what the handler pushes on the window.
Sanitized(j) == prev_angles'[j][1]
\* Every window entry of joint j equals v.
WindowAll(j, v) == \A k \in 1 .. Len(prev_angles[j]) : prev_angles[j][k] = v
\* The window places against which reading a of joint j exceeds the threshold.
FishyPlaces(j, a) ==
    {k \in 1 .. Len(prev_angles[j]) :
        RLt(RMul(ENCODER_ERROR_THRESHOLD, RInt(k)), RAbs(RSub(a, prev_angles[j][k])))}

\* C1: with full windows of consistent readings, a message in which a single
\* joint deviates (inside its limits, no dud value involved) marks no joint faulty
\* and leaves encoder_error false.
C1_SingleAnomalyTolerated ==
    [][(/\ Telemetry
        /\ FullWindow
        /\ \A i \in Joints : WindowAll(i, prev_angles[i][1])
        /\ \A i \in Joints : limit_case(Sanitized(i), i) = "ok"
        /\ \E j \in Joints \ out'.dud :
              /\ ~IsDud(prev_angles[j][1])
              /\ Sanitized(j) # prev_angles[j][1]
              /\ \A i \in Joints \ {j} : Sanitized(i) = prev_angles[i][1])
       => (/\ \A i \in Joints : ~faulty_encoders'[i]
           /\ ~encoder_error')]_vars

\* C3: every joint angle of the live model lies within the joint's limits.
C3_ModelWithinLimits == limit_check(state)

\* C8: in a healthy stream (the model within its limits, every window entry
\* equal to the model's angle, the other joints reporting the model's angle),
\* a joint reading a dud value is sanitized to the model's angle, the model is
\* unchanged and encoder_error is false.
C8_DudReadingSubstituted ==
    [][(/\ Telemetry
        /\ ~previewing
        /\ limit_check(state)
        /\ \A i \in Joints : WindowAll(i, state[i]))
       => \A j \in out'.dud :
             (\A i \in Joints \ {j} : Sanitized(i) = state[i])
             => (/\ Sanitized(j) = state[j]
                 /\ state' = state
                 /\ ~encoder_error')]_vars

\* C8 happens: after a message with a dud reading for a joint at rest away from
\* the dud value, the window holds the model's angle throughout and no error
\* is raised.
C8_Witness ==
    /\ out.op = "arm_position"
    /\ ~encoder_error
    /\ \E j \in out.dud :
          /\ ~IsDud(state[j])
          /\ Len(prev_angles[j]) >= 2
          /\ \A k \in 1 .. Len(prev_angles[j]) : prev_angles[j][k] = state[j]

\* C10: with full windows, after a telemetry message a joint is marked faulty
\* exactly when more than MAX_FISHY_VALS of the MAX_NUM_PREV_ANGLES window
\* places exceed the threshold scaled by the place; otherwise it is not marked.
C10_FullWindowFaultyIff ==
    [][(Telemetry /\ FullWindow)
       => \A j \in Joints :
             faulty_encoders'[j]
                 <=> Cardinality(FishyPlaces(j, Sanitized(j))) > MAX_FISHY_VALS]_vars

\* C10 happens both ways: a full-window message left one joint marked with all
\* places exceeded, and another message cleared a mark with one place exceeded.
C10_Witness ==
    /\ out.op = "arm_position"
    /\ out.full
    /\ \E j \in Joints :
          /\ faulty_encoders[j]
          /\ \A k \in 2 .. MAX_NUM_PREV_ANGLES :
                RLt(RMul(ENCODER_ERROR_THRESHOLD, RInt(k - 1)),
                    RAbs(RSub(prev_angles[j][1], prev_angles[j][k])))

\* C11: with windows of 1 to MAX_NUM_PREV_ANGLES - 1 entries, after a telemetry
\* message a joint is marked faulty exactly when at least one window place
\* exceeds the threshold scaled by the place, whichever place it is; a joint
\* marked faulty comes with encoder_error set.
C11_ShortWindowFaultyIff ==
    [][(/\ Telemetry
        /\ Len(prev_angles[0]) >= 1
        /\ Len(prev_angles[0]) < MAX_NUM_PREV_ANGLES)
       => \A j \in Joints :
             /\ faulty_encoders'[j] <=> FishyPlaces(j, Sanitized(j)) # {}
             /\ faulty_encoders'[j] => encoder_error']_vars

\* C11 happens: a message compared with a short window marked a joint whose
\* newest window entry was exceeded while the oldest one was not.
C11_Witness ==
    /\ out.op = "arm_position"
    /\ ~out.full
    /\ \E j \in Joints :
          LET n == Len(prev_angles[j])
          IN  /\ n >= 3
              /\ faulty_encoders[j]
              /\ encoder_error
              /\ RLt(ENCODER_ERROR_THRESHOLD,
                     RAbs(RSub(prev_angles[j][1], prev_angles[j][2])))
              /\ ~RLt(RMul(ENCODER_ERROR_THRESHOLD, RInt(n - 1)),
                      RAbs(RSub(prev_angles[j][1], prev_angles[j][n])))


\* The text of the message check_joint_limits leaves for a breach.
LimitText == "Encoder Error: beyond joint limits"
\* Angle a lies beyond a limit of joint j by more than the tolerance.
BeyondTolerance(j, a) ==
    \/ RLt(ACCEPTABLE_BEYOND_LIMIT, RSub(get_joint_limits(j)[1], a))
    \/ RLt(ACCEPTABLE_BEYOND_LIMIT, RSub(a, get_joint_limits(j)[2]))

\* C12: after check_joint_limits, for every joint: an angle inside the limits
\* is unchanged; an angle outside a limit by less than the tolerance is
\* replaced by that limit; an angle outside by more than the tolerance leaves
\* encoder_error true and a message naming that joint; and no breach beyond
\* the tolerance leaves no limit error.
C12_LimitCheckPerJoint ==
    [][Telemetry
       => /\ \A j \in Joints :
               LET a == out'.read[j]
                   lo == get_joint_limits(j)[1]
                   hi == get_joint_limits(j)[2]
               IN  /\ (~RLt(a, lo) /\ ~RLt(hi, a)) => Sanitized(j) = a
                   /\ (RLt(a, lo) /\ RLt(RSub(lo, a), ACCEPTABLE_BEYOND_LIMIT))
                         => Sanitized(j) = lo
                   /\ (RLt(hi, a) /\ RLt(RSub(a, hi), ACCEPTABLE_BEYOND_LIMIT))
                         => Sanitized(j) = hi
                   /\ BeyondTolerance(j, a)
                         => /\ encoder_error'
                            /\ encoder_error_message'.text = LimitText
                            /\ encoder_error_message'.joint = j
          /\ (\A j \in Joints : limit_case(out'.read[j], j) # "error")
                => encoder_error_message'.text # LimitText]_vars


\* C13: a telemetry message processed while not previewing leaves the model
\* angle of every joint marked faulty as it was before the callback, and gives
\* every other joint its sanitized reading.
C13_FaultyJointKeepsModelAngle ==
    [][(Telemetry /\ ~previewing)
       => \A j \in Joints :
             state'[j] = IF faulty_encoders'[j] THEN state[j] ELSE Sanitized(j)]_vars

\* A message marked one joint faulty: the model kept an angle other than the
\* reading, and the other joint took its reading.
C13_Witness ==
    /\ out.op = "arm_position"
    /\ ~previewing
    /\ \E j \in Joints :
          /\ faulty_encoders[j]
          /\ state[j] # prev_angles[j][1]
          /\ \E i \in Joints \ {j} :
                ~faulty_encoders[i] /\ state[i] = prev_angles[i][1]

\* C14: the value a telemetry message pushes to the front of a joint's window
\* is the angle after fault substitution: for a joint marked faulty on that
\* message the newest entry is the model's current angle; and no window ever
\* holds more than MAX_NUM_PREV_ANGLES entries.
C14_WindowGetsSubstitutedAngle ==
    [][Telemetry
       => \A j \in Joints :
             /\ faulty_encoders'[j] => prev_angles'[j][1] = state[j]
             /\ Len(prev_angles'[j]) <= MAX_NUM_PREV_ANGLES]_vars

\* C15: once a telemetry message has set encoder_error (temporal-jump fault or
\* limit breach beyond the tolerance), the flag stays true until a fresh window
\* of MAX_NUM_PREV_ANGLES healthy readings has accumulated: the next message
\* does not clear it while the windows hold fewer than MAX_NUM_PREV_ANGLES
\* readings in all.
C15_ErrorSurvivesNextMessage ==
    [][(/\ Telemetry
        /\ out.op = "arm_position"
        /\ encoder_error
        /\ Len(prev_angles'[0]) < MAX_NUM_PREV_ANGLES)
       => encoder_error']_vars

\* Every entry of window w is its newest entry.
WindowConstant(w) == \A k \in 1 .. Len(w) : w[k] = w[1]

\* The window of joint j after the message just handled is full of one and
\* the same angle within the joint's limits: the joint's reading has been
\* constant over the last MAX_NUM_PREV_ANGLES messages.
SteadyAfter(j) ==
    /\ Len(prev_angles'[j]) = MAX_NUM_PREV_ANGLES
    /\ WindowConstant(prev_angles'[j])
    /\ limit_case(prev_angles'[j][1], j) = "ok"

\* C23: the fault detector recovers from a genuine step change: once a joint's
\* reading has jumped to a new value within the limits and stayed there for
\* MAX_NUM_PREV_ANGLES messages in all (the jump and the messages after it),
\* the joint is not marked faulty and, when not previewing, the model angle is
\* the new reading; with every joint so, encoder_error is false.
C23_RecoversFromStepChange ==
    [][Telemetry
       => /\ \A j \in Joints :
                SteadyAfter(j)
                   => /\ ~faulty_encoders'[j]
                      /\ ~previewing => state'[j] = Sanitized(j)
          /\ (\A j \in Joints : SteadyAfter(j)) => ~encoder_error']_vars

\* C23 happens: a joint that was marked faulty for a jump to a reading that is
\* no dud value has read that value ever since; the message just handled
\* cleared the mark and the error and gave the model the new reading.
C23_Witness ==
    /\ out.op = "arm_position"
    /\ ~previewing
    /\ ~encoder_error
    /\ \E j \in Joints :
          /\ j \in out.faulty_before
          /\ j \notin out.dud
          /\ Len(prev_angles[j]) = MAX_NUM_PREV_ANGLES
          /\ WindowConstant(prev_angles[j])
          /\ ~IsDud(prev_angles[j][1])
          /\ limit_case(prev_angles[j][1], j) = "ok"
          /\ ~faulty_encoders[j]
          /\ state[j] = prev_angles[j][1]

---------------------------------------------------------------------------
(* Properties of the controller: command handlers and executor.            *)

\* The step just taken was an executor tick that issued a setpoint.
SetpointIssued == out'.op = "execute_spline:setpoint"
\* The setpoint it issued, in logical units.
Commanded == hist'.setpoint[1]
\* The largest change of joint i that one tick may command.
MaxStep(i) ==
    RDiv(RMul(RMul(get_joint_max_speed(i), Rat(3, 4)), RInt(SPLINE_WAIT_TIME)), RInt(1000))

\* C2: once a telemetry message has raised encoder_error during an execution,
\* the executor issues no setpoint before it has aborted.
C2_NoSetpointAfterError ==
    [][SetpointIssued => ~hist.abort_due]_vars

\* C4: in simulation mode, when an execution of a planned spline ends without an
\* encoder error or a cancel, the model holds spline(1), the planned goal.
C4_CompletesAtGoal ==
    [][(out'.op = "execute_spline:finished" /\ hist.clean)
       => state' = get_spline_pos(spline, RInt(1))]_vars

\* C5: a tick that issues a setpoint commands, for each of the paced joints, a
\* change from the model's current angle of at most
\* max_speed * 0.75 * SPLINE_WAIT_TIME / 1000; stated for the ticks of clean
\* executions along a path whose start differs from its goal.
C5_StepWithinSpeed ==
    [][(SetpointIssued /\ hist.clean /\ spline.from # spline.to)
       => \A i \in PacedJoints :
             ~RLt(MaxStep(i), RAbs(RSub(Commanded[i], state[i])))]_vars

\* C6: while previewing is true the live model's angles do not change.
C6_PreviewKeepsModel ==
    [][(previewing \/ previewing') => state' = state]_vars

\* C7: enable_execute goes from false to true only when a plan's preview has
\* completed and nothing has ended or replaced that plan since.
C7_ExecuteOnlyWhenAwaiting ==
    [][(~enable_execute /\ enable_execute') => hist.awaiting]_vars

\* C9: a target pose received in an unsafe starting configuration publishes
\* the one popup "Unsafe Starting Position", calls neither IK nor the planner
\* nor preview, and changes neither the model nor the spline nor the flags; a
\* start outside the joint limits is always handled so.
C9_UnsafeStartRejected ==
    [][/\ (out'.op = "target_orientation:unsafe"
           => /\ out'.pub = <<Debug(FALSE, DebugText("Unsafe Starting Position"))>>
              /\ out'.calls = <<"is_safe">>
              /\ state' = state /\ spline' = spline /\ hypo_state' = hypo_state
              /\ enable_execute' = enable_execute
              /\ previewing' = previewing
              /\ ik_enabled' = ik_enabled
              /\ cmd_pc' = cmd_pc)
       /\ (out'.calls # <<>> /\ out'.calls[1] = "is_safe" /\ ~limit_check(state)
           => out'.op = "target_orientation:unsafe")]_vars

\* C9 happens: a target pose was rejected while an execution was enabled, once
\* with the model outside its limits.
C9_Witness ==
    /\ out.op = "target_orientation:unsafe"
    /\ enable_execute
    /\ ~limit_check(state)

\* The IK calls of the step just taken, in order, with their outcomes.
IKCalls == SelectSeq(out'.calls, LAMBDA c : c \in {"IK:solved", "IK:failed"})

C16_ModelWritesExclusive ==
    [][(/\ exec_pc = "move"
        /\ spline # NoSpline
        /\ out.op = "arm_position"
        /\ out'.op = "execute_spline:setpoint")
       => state = init_angles]_vars

\* C17: while the controller is executing a planned path, a motion_execute
\* message with preview = true (it counts as no confirmation) cancels the
\* execution: enable_execute is false once the handler has returned.
C17_UnconfirmedExecuteCancels ==
    [][(/\ enable_execute
        /\ spline.planned
        /\ out'.op = "motion_execute"
        /\ env'.execs = env.execs)
       => ~enable_execute']_vars

\* C18: in hardware mode the executor's setpoint conversion undoes the
\* raw-to-logical conversion of telemetry: for every joint, raw value, offset
\* and multiplier, the raw message converted to logical angles and back is the
\* raw message.
C18_ConversionRoundTrip ==
    [][(Telemetry /\ ~sim_mode)
       => to_encoder_units(adjust_encoders(out'.msg)) = out'.msg]_vars

\* C20: every execution starts from t = 0: whenever enable_execute has gone
\* from false to true, the executor's spline parameter is 0 at the first tick
\* of that execution (the tick that issues its first setpoint).
C20_ExecutionStartsAtZero ==
    [][(/\ out'.op = "execute_spline:setpoint"
        /\ spline.planned
        /\ hist.setpoint = NoSetpoint)
       => spline_t = RInt(0)]_vars

\* C21: every setpoint the executor issues has every joint angle within that
\* joint's limits, whatever the spline returned; in simulation mode it is the
\* setpoint that is written to the model.
C21_SetpointWithinLimits ==
    [][SetpointIssued
       => /\ limit_check(Commanded)
          /\ sim_mode => state' = Commanded]_vars

\* C21 happens: the spline returned an angle outside the limits at the
\* executor's parameter, and the setpoint issued for it is within them.
C21_Witness ==
    /\ out.op = "execute_spline:setpoint"
    /\ spline.planned
    /\ ~limit_check(get_spline_pos(spline, spline_t))
    /\ hist.setpoint # NoSetpoint
    /\ limit_check(hist.setpoint[1])
    /\ state = hist.setpoint[1]

\* C22: a new target cancels a running execution before planning starts:
\* target_angles_callback always, and target_orientation_callback with a safe
\* start, leave enable_execute false; while the new plan's preview runs the
\* flag stays false, every poll of the executor finds it false, and a setpoint
\* issued then is that of the tick already in flight, after which the executor
\* is back at its poll.
C22_NewTargetCancels ==
    [][/\ (out'.op \in {"target_angles", "target_orientation",
                        "target_orientation:no_ik"})
             => ~enable_execute'
       /\ cmd_pc' = "preview" => ~enable_execute'
       /\ (cmd_pc = "preview" /\ out'.op = "execute_spline:poll")
             => exec_pc' = "top"
       /\ (cmd_pc = "preview" /\ SetpointIssued)
             => (exec_pc # "top" /\ exec_pc' = "top")]_vars

\* C22 happens: an execution that had issued a setpoint was cancelled by a new
\* target, and during the new plan's preview the executor polled and stayed
\* at its poll.
C22_Witness ==
    /\ cmd_pc = "preview"
    /\ out.op = "execute_spline:poll"
    /\ exec_pc = "top"
    /\ ~enable_execute
    /\ hist.setpoint # NoSetpoint
    /\ spline.planned

====
